---- MODULE Spec2Model ----
(***************************************************************************)
(* A model of the qubit-flip example scripts of FiQCI/helmi-examples:      *)
(*   src/qiskit/qb_flip.py         (command line tool, helmi or simulator) *)
(*   src/qiskit/qb_flip_simple.py  (fixed script, always helmi)            *)
(*                                                                         *)
(* Three specifications share the variables:                               *)
(*   SpecCircuit  the circuit builders flip_circuit / single_flip_circuit  *)
(*                applied to inputs drawn in the initial state;            *)
(*   SpecScore    calculate_success_probability applied likewise;          *)
(*   Spec         the two workflows, flip_qubits of qb_flip.py and main    *)
(*                of qb_flip_simple.py, statement by statement.            *)
(*                                                                         *)
(* Python values are modelled as follows.  A bitstring ('1', '11111',      *)
(* '1 0') is the sequence of its characters.  A dict is a function whose   *)
(* domain is its key set.  A float produced by a / b is the exact pair     *)
(* <<a, b>>.  A raised exception is the name of its class.  The qiskit     *)
(* calls the scripts make (QuantumCircuit, x, measure_all, execute,        *)
(* result, get_counts) are modelled by their documented behaviour at the   *)
(* line that calls them.                                                   *)
(***************************************************************************)
EXTENDS Integers, Sequences, FiniteSets, TLC

\* ------------------------------------------------------------- bounds
\* Longest qubit list the model passes to a builder or to flip_qubits.
MaxLen == 2
\* Largest qubit index the model passes (the example [2,4] needs 4).
MaxQubitId == 4
\* Largest shot count drawn for flip_qubits and for the score evaluator.
MaxShots == 2

\* ------------------------------------------------- program constants
\* qb_flip_simple.py: shots = 1000.
SimpleShots == 1000
\* qb_flip_simple.py: for qb in range(5).
SimpleLoopCount == 5

\* The default qubit set [0, 1, 2, 3, 4] both scripts flip "all at once".
DefaultQubits == <<0, 1, 2, 3, 4>>

\* The two forms of the builders: qb_flip.py declares no classical register
\* ("implicit"), qb_flip_simple.py declares one of the register's size
\* ("explicit").
Variants == {"implicit", "explicit"}

NoException == "none"

\* ------------------------------------------------------------ helpers
Range(s) == {s[i] : i \in DOMAIN s}

SeqsUpTo(S, lo, hi) == UNION {[1..n -> S] : n \in lo..hi}

Ones(k) == [i \in 1..k |-> "1"]

\* ----------------------------------------------------- qiskit circuits
\* QuantumCircuit(qreg) / QuantumCircuit(qreg, creg): a register of n qubits,
\* the declared classical registers (their sizes, in declaration order) and
\* no operation yet.
QuantumCircuit(n, cregs) ==
    [num_qubits |-> n, cregs |-> cregs, ops |-> <<>>]

NoCircuit == QuantumCircuit(0, <<>>)

\* What qc.x(index) accepts: an integer index into the circuit's qubit list
\* (Python indexing, so -n..-1 would count from the end; the model passes
\* no negative index).  Any other index raises CircuitError.
XIndexInRange(qc, index) == 0 <= index /\ index < qc.num_qubits

\* qc.x(index) once the index is accepted: append a bit-flip on that
\* register position.
XGate(qc, index) ==
    [qc EXCEPT !.ops = Append(@, [gate |-> "x", qubit |-> index,
                                   creg |-> 0, clbit |-> 0])]

\* qc.measure_all(): add a NEW classical register "meas" with one bit per
\* qubit, whatever registers the circuit already declares, then a barrier
\* and a measurement of qubit i into meas[i].
RECURSIVE MeasureInto(_, _, _)
MeasureInto(qc, r, i) ==
    IF i >= qc.num_qubits THEN qc
    ELSE MeasureInto(
           [qc EXCEPT !.ops = Append(@, [gate |-> "measure", qubit |-> i,
                                          creg |-> r, clbit |-> i])],
           r, i + 1)

MeasureAll(qc) ==
    LET withReg == [qc EXCEPT !.cregs = Append(@, qc.num_qubits)]
        r       == Len(withReg.cregs)
        barrier == [withReg EXCEPT !.ops = Append(@, [gate |-> "barrier",
                                   qubit |-> 0, creg |-> 0, clbit |-> 0])]
    IN  MeasureInto(barrier, r, 0)

NumClbits(qc) ==
    LET RECURSIVE Sum(_)
        Sum(i) == IF i = 0 THEN 0 ELSE qc.cregs[i] + Sum(i - 1)
    IN  Sum(Len(qc.cregs))

\* The register positions that carry a bit-flip, one entry per gate.
XTargets(qc) ==
    LET xs == SelectSeq(qc.ops, LAMBDA o : o.gate = "x")
    IN  [i \in 1..Len(xs) |-> xs[i].qubit]

FlipCount(qc, q) == Cardinality({i \in DOMAIN XTargets(qc) : XTargets(qc)[i] = q})

\* ------------------------------------------------------ the builders
BuildResult(exc, qc, mapping) ==
    [exc |-> exc, circuit |-> qc, mapping |-> mapping]

BuildFailed(exc) == BuildResult(exc, NoCircuit, <<>>)

\* The registers the constructor call declares: QuantumCircuit(qreg) in
\* qb_flip.py, QuantumCircuit(qreg, creg) with a creg of the same size in
\* qb_flip_simple.py.
DeclaredCregs(variant, n) == IF variant = "explicit" THEN <<n>> ELSE <<>>

\* The index the loop of flip_circuit hands to qc.x: the list element itself.
FlipGateIndex(qubits, i) == qubits[i]

\* for qubit in qubits: qc.x(qubit) -- the first rejected index raises.
RECURSIVE ApplyFlips(_, _, _)
ApplyFlips(qc, qubits, i) ==
    IF i > Len(qubits) THEN [exc |-> NoException, circuit |-> qc]
    ELSE IF ~XIndexInRange(qc, FlipGateIndex(qubits, i))
         THEN [exc |-> "CircuitError", circuit |-> NoCircuit]
         ELSE ApplyFlips(XGate(qc, FlipGateIndex(qubits, i)), qubits, i + 1)

\* mapping = {qreg[i]: qubits[i] for i in range(len(qubits))}
\* (register position i, counted from 0, to the i-th list element).
LayoutOf(qubits) == [i \in 0..(Len(qubits) - 1) |-> qubits[i + 1]]

flip_circuit(variant, qubits) ==
    LET n       == Len(qubits)
        qc      == QuantumCircuit(n, DeclaredCregs(variant, n))
        flipped == ApplyFlips(qc, qubits, 1)
    IN  IF flipped.exc # NoException THEN BuildFailed(flipped.exc)
        ELSE BuildResult(NoException, MeasureAll(flipped.circuit),
                         LayoutOf(qubits))

\* Fault seeded for C10: the mapping ignores the requested qubit.
SingleLayout_Zero(qubit) == [i \in {0} |-> 0]

\* mapping = {qreg[0]: qubit}
SingleLayout(qubit) == [i \in {0} |-> qubit]

single_flip_circuit(variant, qubit) ==
    LET qc == QuantumCircuit(1, DeclaredCregs(variant, 1))
    IN  IF ~XIndexInRange(qc, 0) THEN BuildFailed("CircuitError")
        ELSE BuildResult(NoException, MeasureAll(XGate(qc, 0)),
                         SingleLayout(qubit))


\* ------------------------------------------------- the score evaluator
NoValue == <<>>

\* Fault seeded for C6: a wrong default for an absent key.
DictGet_DefaultOne(d, key, default) == IF key \in DOMAIN d THEN d[key] ELSE 1

\* dict.get(key, default)
DictGet(d, key, default) == IF key \in DOMAIN d THEN d[key] ELSE default

\* Fault seeded for C7: a zero divisor is answered with 0 instead of raising.
TrueDiv_ZeroGuard(a, b) ==
    IF b = 0 THEN [exc |-> NoException, value |-> <<0, 1>>]
    ELSE [exc |-> NoException, value |-> <<a, b>>]

\* a / b on Python ints: the quotient, or ZeroDivisionError when b is 0.
TrueDiv(a, b) ==
    IF b = 0 THEN [exc |-> "ZeroDivisionError", value |-> NoValue]
    ELSE [exc |-> NoException, value |-> <<a, b>>]

\* The outcome of a call: the exception raised (or none), the value returned
\* (or none) and the dict as the call leaves it.
calculate_success_probability(counts, shots, desired_state) ==
    LET success_counts == DictGet(counts, desired_state, 0)
        q              == TrueDiv(success_counts, shots)
    IN  [exc |-> q.exc, value |-> q.value, counts |-> counts]

NotCalled == [exc |-> "pending", value |-> NoValue, counts |-> <<>>]

\* f"{p * 100:.2f}%": the probability as hundredths of a percent, rounded to
\* nearest, ties to even.
FormatPercent(value) ==
    LET n == value[1] * 10000
        d == value[2]
        q == n \div d
        r == n % d
    IN  IF 2 * r < d THEN q
        ELSE IF 2 * r > d THEN q + 1
        ELSE IF q % 2 = 0 THEN q ELSE q + 1

SumValues(d) ==
    LET RECURSIVE Sum(_)
        Sum(K) == IF K = {} THEN 0
                  ELSE LET k == CHOOSE x \in K : TRUE
                       IN  d[k] + Sum(K \ {k})
    IN  Sum(DOMAIN d)

\* ---------------------------------------------------------- variables
VARIABLES
    \* SpecCircuit: the inputs and the results of the two builders
    c_variant, c_qubits, c_qubit, c_flip, c_single,
    \* SpecScore: the inputs and the result of the score evaluator
    s_counts, s_passed, s_shots, s_desired, s_result,
    \* Spec: the workflow
    script, qubits, backend_name, env_url, shots, verbose,
    pc, backend, pairs, idx, counts, submitted, out, raised

cvars == <<c_variant, c_qubits, c_qubit, c_flip, c_single>>
svars == <<s_counts, s_passed, s_shots, s_desired, s_result>>
wvars == <<script, qubits, backend_name, env_url, shots, verbose,
           pc, backend, pairs, idx, counts, submitted, out, raised>>
vars == <<cvars, svars, wvars>>

\* ------------------------------------------------- SpecCircuit
QubitIds == 0..MaxQubitId

QubitLists == SeqsUpTo(QubitIds, 1, MaxLen)

NoBuild == BuildResult("pending", NoCircuit, <<>>)

CircuitIdle ==
    /\ c_variant = "implicit" /\ c_qubits = <<0>> /\ c_qubit = 0
    /\ c_flip = NoBuild /\ c_single = NoBuild

CircuitInit ==
    /\ c_variant \in Variants
    /\ c_qubits \in QubitLists
    /\ c_qubit \in QubitIds
    /\ c_flip = NoBuild
    /\ c_single = NoBuild

CallFlipCircuit ==
    /\ c_flip.exc = "pending"
    /\ c_flip' = flip_circuit(c_variant, c_qubits)
    /\ UNCHANGED <<c_variant, c_qubits, c_qubit, c_single, svars, wvars>>

CallSingleFlipCircuit ==
    /\ c_single.exc = "pending"
    /\ c_single' = single_flip_circuit(c_variant, c_qubit)
    /\ UNCHANGED <<c_variant, c_qubits, c_qubit, c_flip, svars, wvars>>

\* ------------------------------------------------- SpecScore
ScoreKeys == {<<"0">>, <<"1">>}

ExampleCounts ==
    { (<<"1">> :> 700) @@ (<<"0">> :> 300),
      (Ones(5) :> 950) @@ ([i \in 1..5 |-> "0"] :> 50) }

ScoreCounts ==
    UNION {[K -> 0..MaxShots] : K \in SUBSET ScoreKeys} \cup ExampleCounts

ScoreIdle ==
    /\ s_counts = <<>> /\ s_passed = <<>> /\ s_shots = 1
    /\ s_desired = <<"1">> /\ s_result = NotCalled

ScoreInit ==
    /\ s_counts \in ScoreCounts
    /\ s_passed = s_counts
    /\ s_shots \in (0..MaxShots) \cup {SimpleShots}
    /\ s_desired \in ScoreKeys \cup {Ones(5)}
    /\ s_result = NotCalled

CallCalculate ==
    /\ s_result.exc = "pending"
    /\ LET r == calculate_success_probability(s_counts, s_shots, s_desired)
       IN  /\ s_result' = r
           /\ s_counts' = r.counts
    /\ UNCHANGED <<s_passed, s_shots, s_desired, cvars, wvars>>


\* ------------------------------------------------- the execution target
\* `not HELMI_CORTEX_URL`: os.getenv gives None for an unset variable, and
\* both None and the empty string are falsy.
Unset == "<unset>"

\* Fault seeded for C2: only an unset variable counts as missing.
EndpointMissing_OnlyUnset(url) == url = Unset

EndpointMissing(url) == url = Unset \/ url = ""

NoBackend == [kind |-> "none", url |-> ""]

\* provider.get_backend(...) of IQMProvider(url) or of Aer.
GetBackend(remote, url) ==
    IF remote THEN [kind |-> "IQMBackend", url |-> url]
    ELSE [kind |-> "AerSimulator", url |-> ""]

\* "IQM" in str(backend)
IsIQM(b) == b.kind = "IQMBackend"

\* str(n) of a non-negative int: its decimal digits.
Digit(d) == <<"0", "1", "2", "3", "4", "5", "6", "7", "8", "9">>[d + 1]

RECURSIVE Str(_)
Str(n) == IF n < 10 THEN <<Digit(n)>> ELSE Str(n \div 10) \o <<Digit(n % 10)>>

\* 'QB' + str(qb + 1), also the name the device gives physical qubit qb.
PhysicalName(q) == <<"Q", "B">> \o Str(q + 1)

\* What one shot leaves in the classical bits: the measured qubit's value in
\* a bit some measurement writes, 0 in a bit none writes.
ClbitValue(qc, r, b, qv) ==
    LET ms == SelectSeq(qc.ops, LAMBDA o : o.gate = "measure" /\ o.creg = r
                                           /\ o.clbit = b)
    IN  IF Len(ms) = 0 THEN 0 ELSE qv[ms[Len(ms)].qubit]

BitChar(v) == IF v = 1 THEN "1" ELSE "0"

\* get_counts() keys: the registers from the last added to the first,
\* separated by a space, each with its highest bit first.
RegisterString(qc, r, qv) ==
    [j \in 1..qc.cregs[r] |-> BitChar(ClbitValue(qc, r, qc.cregs[r] - j, qv))]

RECURSIVE JoinRegisters(_, _, _)
JoinRegisters(qc, r, qv) ==
    IF r = 0 THEN <<>>
    ELSE IF r = 1 THEN RegisterString(qc, 1, qv)
    ELSE RegisterString(qc, r, qv) \o <<" ">> \o JoinRegisters(qc, r - 1, qv)

CountsKey(qc, qv) == JoinRegisters(qc, Len(qc.cregs), qv)

\* The qubit values of a noiseless shot (each bit-flip inverts its qubit)
\* and of a shot in which every qubit is read as 0.
IdealBits(qc) == [q \in 0..(qc.num_qubits - 1) |-> FlipCount(qc, q) % 2]

ZeroBits(qc) == [q \in 0..(qc.num_qubits - 1) |-> 0]

\* The histograms the model lets a job return: n shots with the noiseless
\* outcome, the others all zero; an outcome never seen has no key.
CountsOf(qc, nshots, n) ==
    LET ki == CountsKey(qc, IdealBits(qc))
        kz == CountsKey(qc, ZeroBits(qc))
    IN  IF ki = kz THEN [k \in {ki} |-> nshots]
        ELSE [k \in ({ki} \cap {x \in {ki} : n > 0})
                    \cup ({kz} \cap {x \in {kz} : nshots - n > 0})
              |-> IF k = ki THEN n ELSE nshots - n]

\* How many of the shots a job reports with the noiseless outcome: none,
\* half or all of them.
OutcomeCounts(nshots) == {0, nshots \div 2, nshots}

\* ------------------------------------------------------- the workflows
Scripts == {"qb_flip", "qb_flip_simple"}

IsSimple == script = "qb_flip_simple"

\* The remote target: --backend helmi, and always in qb_flip_simple.py.
RemoteSelected == IsSimple \/ backend_name = "helmi"

NoQubits == [given |-> FALSE, list |-> <<>>]

\* execute(circuit, backend, shots=shots, initial_layout=mapping): one entry
\* per call, with the state of the job it started.
Request(qc, mapping, b, nshots, status) ==
    [circuit |-> qc, mapping |-> mapping, backend |-> b, shots |-> nshots,
     status |-> status]

Line(kind, j, desired, value, text) ==
    [kind |-> kind, job |-> j, desired |-> desired, value |-> value,
     text |-> text]

Note(kind, j) == Line(kind, j, <<>>, NoValue, 0)

\* circuit_mapping_pairs of flip_qubits.
RECURSIVE SinglePairs(_, _)
SinglePairs(list, i) ==
    IF i > Len(list) THEN <<>>
    ELSE <<single_flip_circuit("implicit", list[i])>> \o SinglePairs(list, i + 1)

CircuitMappingPairs(q) ==
    IF ~q.given THEN <<flip_circuit("implicit", DefaultQubits)>>
    ELSE SinglePairs(q.list, 1)

\* The circuit and mapping of the job at loop position i (from 0).
PairAt(i) ==
    IF ~IsSimple THEN pairs[i + 1]
    ELSE IF i < SimpleLoopCount THEN single_flip_circuit("explicit", i)
    ELSE flip_circuit("explicit", DefaultQubits)

NumJobs == IF IsSimple THEN SimpleLoopCount + 1 ELSE Len(pairs)

\* The desired bitstring the job at loop position i is scored against.
DesiredState(i) ==
    IF IsSimple THEN (IF i < SimpleLoopCount THEN <<"1">> ELSE Ones(5))
    ELSE IF ~qubits.given THEN Ones(5) ELSE <<"1">>

\* execute() returns the job and the script blocks in job.result() before it
\* goes on: the position after a submission.
\* Fault seeded for C9: the loop goes on without waiting for the result.
AfterSubmit_FireAndForget(i) == [pc |-> "loop", idx |-> i + 1]

AfterSubmit(i) == [pc |-> "result", idx |-> i]

WorkflowIdle ==
    /\ script = "qb_flip" /\ qubits = NoQubits /\ backend_name = "simulator"
    /\ env_url = Unset /\ shots = 1 /\ verbose = FALSE
    /\ pc = "idle" /\ backend = NoBackend /\ pairs = <<>> /\ idx = 0
    /\ counts = <<>> /\ submitted = <<>> /\ out = <<>>
    /\ raised = NoException

WorkflowInit ==
    /\ script \in Scripts
    /\ IF script = "qb_flip"
       THEN /\ qubits \in {NoQubits} \cup
                 {[given |-> TRUE, list |-> l] :
                    l \in SeqsUpTo(QubitIds, 0, MaxLen)}
            /\ backend_name \in {"helmi", "simulator"}
            /\ shots \in 1..MaxShots
            /\ verbose \in BOOLEAN
       ELSE /\ qubits = NoQubits
            /\ backend_name = "helmi"
            /\ shots = 0
            /\ verbose = FALSE
    /\ env_url \in {Unset, "", "https://helmi"}
    /\ pc = "start" /\ backend = NoBackend /\ pairs = <<>> /\ idx = 0
    /\ counts = <<>> /\ submitted = <<>> /\ out = <<>>
    /\ raised = NoException

Raise(exc) ==
    /\ pc' = "Failed"
    /\ raised' = exc

\* The endpoint check and the backend (qb_flip.py 91-100, qb_flip_simple.py
\* 68-76).
ResolveBackend ==
    /\ pc = "start"
    /\ IF RemoteSelected /\ EndpointMissing(env_url)
       THEN /\ Raise("ValueError")
            /\ UNCHANGED <<backend, shots, out>>
       ELSE /\ backend' = GetBackend(RemoteSelected, env_url)
            /\ shots' = IF IsSimple THEN SimpleShots ELSE shots
            /\ out' = IF IsSimple THEN Append(out, Note("header_one", 0))
                      ELSE out
            /\ pc' = IF IsSimple THEN "loop" ELSE "build"
            /\ UNCHANGED raised
    /\ UNCHANGED <<script, qubits, backend_name, env_url, verbose, pairs, idx,
                   counts, submitted, cvars, svars>>

\* qb_flip.py 102-109.
BuildCircuits ==
    /\ pc = "build"
    /\ LET built == CircuitMappingPairs(qubits)
           bad   == {i \in DOMAIN built : built[i].exc # NoException}
       IN  IF bad # {}
           THEN /\ Raise(built[CHOOSE i \in bad : \A j \in bad : i <= j].exc)
                /\ UNCHANGED pairs
           ELSE /\ pairs' = built
                /\ pc' = "loop"
                /\ UNCHANGED raised
    /\ UNCHANGED <<script, qubits, backend_name, env_url, shots, verbose,
                   backend, idx, counts, submitted, out, cvars, svars>>

\* The loop's next job: build (qb_flip_simple.py), print when verbose, and
\* call execute, which returns a job or raises.
Execute ==
    /\ pc = "loop"
    /\ idx < NumJobs
    /\ LET built == PairAt(idx)
           shown == IF IsSimple /\ idx = SimpleLoopCount
                    THEN Append(out, Note("header_all", idx))
                    ELSE IF ~IsSimple /\ verbose
                    THEN Append(out, Note("circuit", idx))
                    ELSE out
       IN  IF built.exc # NoException
           THEN /\ Raise(built.exc)
                /\ out' = shown
                /\ UNCHANGED <<idx, submitted>>
           ELSE /\ out' = shown
                /\ \E accepted \in BOOLEAN :
                     IF accepted
                     THEN /\ submitted' = Append(submitted,
                               Request(built.circuit, built.mapping, backend,
                                       shots, "running"))
                          /\ pc' = AfterSubmit(idx).pc
                          /\ idx' = AfterSubmit(idx).idx
                          /\ UNCHANGED raised
                     ELSE /\ submitted' = Append(submitted,
                               Request(built.circuit, built.mapping, backend,
                                       shots, "rejected"))
                          /\ Raise("SubmissionError")
                          /\ UNCHANGED idx
    /\ UNCHANGED <<script, qubits, backend_name, env_url, shots, verbose,
                   backend, pairs, counts, cvars, svars>>

\* job.result(): blocks until the job ends, then raises or gives the result;
\* qb_flip_simple.py asserts the realized mapping of the loop's jobs;
\* get_counts().
Result ==
    /\ pc = "result"
    /\ LET k   == Len(submitted)
           req == submitted[k]
       IN  \E finished \in BOOLEAN :
             IF ~finished
             THEN /\ submitted' = [submitted EXCEPT ![k].status = "failed"]
                  /\ Raise("ExecutionError")
                  /\ UNCHANGED counts
             ELSE /\ submitted' = [submitted EXCEPT ![k].status = "done"]
                  /\ IF IsSimple /\ idx < SimpleLoopCount
                        /\ PhysicalName(idx) # PhysicalName(req.mapping[0])
                     THEN /\ Raise("AssertionError")
                          /\ UNCHANGED counts
                     ELSE /\ \E n \in OutcomeCounts(req.shots) :
                               counts' = CountsOf(req.circuit, req.shots, n)
                          /\ pc' = "score"
                          /\ UNCHANGED raised
    /\ UNCHANGED <<script, qubits, backend_name, env_url, shots, verbose,
                   backend, pairs, idx, out, cvars, svars>>

\* The lines one iteration prints once the score is known.
Printed(i, desired, value) ==
    LET prob == Line("probability", i, desired, value, FormatPercent(value))
    IN  IF IsSimple THEN <<prob>>
        ELSE (IF verbose /\ IsIQM(backend) THEN <<Note("mapping", i)>> ELSE <<>>)
             \o (IF verbose THEN <<Note("counts", i)>> ELSE <<>>)
             \o (IF IsIQM(backend) THEN <<Note("physical_name", i)>> ELSE <<>>)
             \o <<prob>>

\* Score the counts against the desired bitstring and print.
Score ==
    /\ pc = "score"
    /\ LET desired == DesiredState(idx)
           r       == calculate_success_probability(counts, shots, desired)
       IN  /\ counts' = r.counts
           /\ IF r.exc # NoException
              THEN /\ Raise(r.exc)
                   /\ UNCHANGED <<out, idx>>
              ELSE /\ out' = out \o Printed(idx, desired, r.value)
                   /\ idx' = idx + 1
                   /\ pc' = "loop"
                   /\ UNCHANGED raised
    /\ UNCHANGED <<script, qubits, backend_name, env_url, shots, verbose,
                   backend, pairs, submitted, cvars, svars>>

\* The loop is exhausted: the script returns.
Finish ==
    /\ pc = "loop"
    /\ idx >= NumJobs
    /\ pc' = "Done"
    /\ UNCHANGED <<script, qubits, backend_name, env_url, shots, verbose,
                   backend, pairs, idx, counts, submitted, out, raised,
                   cvars, svars>>

\* ------------------------------------------------- the specifications
Init == CircuitIdle /\ ScoreIdle /\ WorkflowInit

Next == ResolveBackend \/ BuildCircuits \/ Execute \/ Result \/ Score \/ Finish

Spec == Init /\ [][Next]_vars

InitCircuit == CircuitInit /\ ScoreIdle /\ WorkflowIdle

NextCircuit == CallFlipCircuit \/ CallSingleFlipCircuit

SpecCircuit == InitCircuit /\ [][NextCircuit]_vars

InitScore == CircuitIdle /\ ScoreInit /\ WorkflowIdle

NextScore == CallCalculate

SpecScore == InitScore /\ [][NextScore]_vars


\* ------------------------------------------------------------- claims
Called(r) == r.exc # "pending"

Built(r) == r.exc = NoException

Distinct(q) == \A i, j \in DOMAIN q : i # j => q[i] # q[j]

Injective(f) == \A i, j \in DOMAIN f : i # j => f[i] # f[j]

\* The exceptions of a job that fails: at submission, or after it was
\* accepted.
JobFailures == {"SubmissionError", "ExecutionError"}

\* The runs the per-qubit loop is about, and the jobs it asks for.
PerQubitMode == IsSimple \/ qubits.given

RequestedCount == IF IsSimple THEN SimpleLoopCount ELSE Len(qubits.list)

RequestedQubit(k) == IF IsSimple THEN k - 1 ELSE qubits.list[k]

\* The report: the lines that carry a job's outcome.
Report == SelectSeq(out, LAMBDA l : l.kind \in {"probability", "failed"})

ValidScore(v) == Len(v) = 2 /\ v[2] > 0 /\ 0 <= v[1] /\ v[1] <= v[2]

Terminal == pc \in {"Done", "Failed"}

\* C1: in a run of the per-qubit loop over n qubits that got past backend
\* resolution, whichever jobs fail, the finished run has submitted a job for
\* each of the n qubits, its report has an entry for each of them in input
\* order, failed where the job failed and a valid score otherwise, and no
\* job failure has propagated out of the loop.
C1_PartialFailureIsolation ==
    (Terminal /\ PerQubitMode /\ raised # "ValueError") =>
        /\ raised \notin JobFailures
        /\ Len(submitted) >= RequestedCount
        /\ Len(Report) >= RequestedCount
        /\ \A k \in 1..RequestedCount :
             /\ k <= Len(submitted) /\ k <= Len(Report)
             /\ Report[k].job = k - 1
             /\ submitted[k].mapping[0] = RequestedQubit(k)
             /\ IF submitted[k].status = "done"
                THEN Report[k].kind = "probability"
                     /\ ValidScore(Report[k].value)
                ELSE Report[k].kind = "failed"

\* C2: when the remote target is selected and the endpoint is unset or
\* empty, the workflow is either not yet started or in the terminal Failed
\* state with the configuration error, no backend was resolved and nothing
\* was ever submitted.
C2_ConfigFailureBeforeSubmission ==
    (RemoteSelected /\ env_url \in {Unset, ""}) =>
        /\ Len(submitted) = 0
        /\ backend = NoBackend
        /\ pc \in {"start", "Failed"}
        /\ (pc = "Failed" => raised = "ValueError")

C2_Witness ==
    /\ RemoteSelected /\ env_url = ""
    /\ pc = "Failed" /\ raised = "ValueError" /\ Len(submitted) = 0

\* C3: flip_circuit on a non-empty sequence of k distinct qubit indices
\* succeeds and gives a circuit over k qubits whose gate indices all lie in
\* [0, k), with exactly one bit-flip on each register position, so that a
\* noiseless shot reads every qubit as 1.
C3_FlipGatePlacement ==
    (Called(c_flip) /\ Len(c_qubits) >= 1 /\ Distinct(c_qubits)) =>
        LET k  == Len(c_qubits)
            qc == c_flip.circuit
        IN  /\ Built(c_flip)
            /\ qc.num_qubits = k
            /\ \A t \in Range(XTargets(qc)) : 0 <= t /\ t < k
            /\ \A q \in 0..(k - 1) : FlipCount(qc, q) = 1
            /\ IdealBits(qc) = [q \in 0..(k - 1) |-> 1]

SizesAre(r, k) ==
    /\ r.circuit.num_qubits = k
    /\ NumClbits(r.circuit) = k
    /\ Len(CountsKey(r.circuit, IdealBits(r.circuit))) = k

\* C4: a circuit a builder returns for k qubits, in the form that declares a
\* classical register and in the form that does not, has exactly k qubits
\* and exactly k classical bits after measure_all, and its Counts keys are
\* bitstrings of exactly k bits.
C4_RegisterSizes ==
    /\ (Called(c_flip) /\ Built(c_flip)) => SizesAre(c_flip, Len(c_qubits))
    /\ (Called(c_single) /\ Built(c_single)) => SizesAre(c_single, 1)

\* C5: for every qubit-index sequence of length k, flip_circuit returns,
\* with the circuit, a mapping of exactly k entries that takes register
\* position i to the i-th element of the sequence and is injective ([2,4]
\* gives {0:2, 1:4}); single_flip_circuit(q) returns the mapping {0: q}.
C5_LogicalToPhysicalMapping ==
    /\ Called(c_flip) =>
         /\ Built(c_flip)
         /\ DOMAIN c_flip.mapping = 0..(Len(c_qubits) - 1)
         /\ \A i \in 0..(Len(c_qubits) - 1) :
              c_flip.mapping[i] = c_qubits[i + 1]
         /\ Injective(c_flip.mapping)
    /\ Called(c_single) =>
         /\ Built(c_single)
         /\ DOMAIN c_single.mapping = {0}
         /\ c_single.mapping[0] = c_qubit

\* C6: for shots > 0 calculate_success_probability returns exactly the count
\* under the desired bitstring (0 when the key is absent) over shots, leaves
\* Counts as passed, and the result lies in [0,1] when the counts sum to
\* shots; {"1":700,"0":300}, 1000, "1" gives 0.70.
C6_SuccessProbability ==
    (Called(s_result) /\ s_shots > 0) =>
        /\ s_result.exc = NoException
        /\ s_result.value =
             <<IF s_desired \in DOMAIN s_passed THEN s_passed[s_desired] ELSE 0,
               s_shots>>
        /\ DOMAIN s_counts = DOMAIN s_passed
        /\ \A k \in DOMAIN s_passed : s_counts[k] = s_passed[k]
        /\ (SumValues(s_passed) = s_shots => ValidScore(s_result.value))
        /\ (/\ s_passed = (<<"1">> :> 700) @@ (<<"0">> :> 300)
            /\ s_shots = 1000 /\ s_desired = <<"1">>)
           => s_result.value[1] * 100 = 70 * s_result.value[2]

C6_Witness ==
    /\ Called(s_result) /\ s_result.exc = NoException
    /\ s_shots = 1000 /\ s_desired = <<"1">>
    /\ DOMAIN s_passed = {<<"0">>, <<"1">>}
    /\ s_passed[<<"1">>] = 700
    /\ s_result.value = <<700, 1000>>

\* C7: with shots = 0 the score evaluator fails, whatever the counts and
\* the desired bitstring: it raises the division-by-zero error, which is no
\* job failure, and returns no probability.
C7_ZeroShotsRejected ==
    (Called(s_result) /\ s_shots = 0) =>
        /\ s_result.exc = "ZeroDivisionError"
        /\ s_result.exc \notin JobFailures
        /\ s_result.value = NoValue

C7_Witness ==
    /\ s_shots = 0 /\ s_result.exc = "ZeroDivisionError"
    /\ s_desired \in DOMAIN s_passed
    /\ s_passed[s_desired] > 0

\* C8: single_flip_circuit(q) and flip_circuit([q]) give the same result for
\* every q: a 1-qubit circuit with one bit-flip on register position 0,
\* measured, and the mapping {0: q}.
C8_SingleEqualsGeneral ==
    (Called(c_flip) /\ Called(c_single) /\ c_qubits = <<c_qubit>>) =>
        /\ Built(c_single)
        /\ c_single.circuit.num_qubits = 1
        /\ XTargets(c_single.circuit) = <<0>>
        /\ c_single.mapping[0] = c_qubit
        /\ c_flip.exc = c_single.exc
        /\ c_flip.circuit = c_single.circuit
        /\ DOMAIN c_flip.mapping = {0}
        /\ c_flip.mapping[0] = c_qubit

Probabilities == SelectSeq(out, LAMBDA l : l.kind = "probability")

\* C9: at most one job is outstanding; every job but the last submitted has
\* had its result retrieved and its probability reported; the k-th reported
\* probability is that of the k-th job, which in the per-qubit loop is the
\* job of the k-th requested qubit.
C9_SequentialJobs ==
    /\ Cardinality({k \in DOMAIN submitted :
                      submitted[k].status = "running"}) <= 1
    /\ \A k \in DOMAIN submitted :
         k < Len(submitted) =>
           /\ submitted[k].status = "done"
           /\ k <= Len(Probabilities)
    /\ \A k \in DOMAIN Probabilities :
         /\ Probabilities[k].job = k - 1
         /\ k <= Len(submitted)
         /\ submitted[k].status = "done"
         /\ (PerQubitMode /\ k <= RequestedCount)
            => submitted[k].mapping[0] = RequestedQubit(k)

C9_Witness ==
    /\ ~IsSimple /\ qubits.given /\ Len(qubits.list) = 2
    /\ qubits.list[1] # qubits.list[2]
    /\ Len(submitted) = 2 /\ submitted[2].status = "running"
    /\ Len(Probabilities) = 1

\* C10: a run of flip_qubits that ends without a failure has submitted, for
\* a qubit list of length n, exactly n jobs, the i-th a 1-qubit flip circuit
\* mapped to the i-th listed qubit and scored against "1"; with no list,
\* exactly one job, the flip circuit over [0,1,2,3,4] scored against
\* "11111".  The desired bitstring is as long as the register of the
\* circuit run, and every job went to the resolved backend.
C10_ModeAndJobCount ==
    (~IsSimple /\ pc = "Done") =>
        /\ Len(Probabilities) = Len(submitted)
        /\ \A k \in DOMAIN submitted :
             /\ submitted[k].backend = backend
             /\ submitted[k].shots = shots
             /\ Len(Probabilities[k].desired) = submitted[k].circuit.num_qubits
        /\ IF qubits.given
           THEN /\ Len(submitted) = Len(qubits.list)
                /\ \A k \in DOMAIN submitted :
                     /\ submitted[k].circuit.num_qubits = 1
                     /\ XTargets(submitted[k].circuit) = <<0>>
                     /\ DOMAIN submitted[k].mapping = {0}
                     /\ submitted[k].mapping[0] = qubits.list[k]
                     /\ Probabilities[k].desired = <<"1">>
           ELSE /\ Len(submitted) = 1
                /\ submitted[1].circuit.num_qubits = 5
                /\ XTargets(submitted[1].circuit) = DefaultQubits
                /\ \A i \in 0..4 : submitted[1].mapping[i] = i
                /\ Probabilities[1].desired = Ones(5)

C10_Witness ==
    /\ ~IsSimple /\ pc = "Done" /\ qubits.given
    /\ Len(qubits.list) = 2 /\ qubits.list[1] # qubits.list[2]
    /\ Len(submitted) = 2
    /\ backend.kind = "IQMBackend"

====
